---- MODULE Spec2Model ----
(***************************************************************************)
(* Model of the ESLint language client (client/src/client.ts): the         *)
(* Validator, the middleware that keeps syncedDocuments, the handlers for  *)
(* configuration changes and ProbeFailed requests, and readConfiguration   *)
(* with its migration workflow guarded by migrationSemaphore.              *)
(***************************************************************************)
EXTENDS Naturals, Sequences, FiniteSets

VARIABLES
    config,           \* Workspace.getConfiguration('eslint', ...): enable, validate, probe
    textDocuments,    \* Workspace.textDocuments: URIs of the open documents, in the editor's order
    notebookOpen,     \* whether the notebook that owns the cell documents is open
    syncedDocuments,  \* client.ts:118, the keys of the syncedDocuments map, in insertion order
    probeFailed,      \* client.ts:28, Validator.probeFailed
    sent,             \* what the last handler passed on to the server through next(...)
    lastEvent,        \* the event handled last: [type, uri]
    checked,          \* the last observed call of Validator.check: [uri, result]
    resolved,         \* a computation observed on its own: [input, done, output]
    globalMigration,  \* the global setting eslint.migration.2_x: "on" or "off"
    legacy,           \* per resource: its settings still hold the legacy autoFixOnSave form
    notNow,           \* client.ts:133
    migration,        \* client.ts:131, the resource of the Migration in flight, or NoUri
    active,           \* migrationSemaphore: the thunks running
    waiting,          \* migrationSemaphore: the requests whose thunk waits, oldest first
    requests,         \* the readConfiguration calls: [pc, items, idx, result, enabled, reported,
                      \* landed]
    commands,         \* the runs of the command eslint.migrateSettings: [pc, folder, landed,
                      \* errors]
    changed,          \* writes of the settings whose change event is still to be delivered
    classified        \* history: per URI the answer of the most recent validator.check for
                      \* the document, "none" when there was no call or the document was
                      \* closed or evicted by a failed probe afterwards

syncVars == <<config, textDocuments, notebookOpen, syncedDocuments, probeFailed, sent, lastEvent,
              classified>>
migVars == <<globalMigration, legacy, notNow, migration, active, waiting, requests, commands,
             changed>>
pureVars == <<checked, resolved>>
vars == <<config, textDocuments, notebookOpen, syncedDocuments, probeFailed, sent, lastEvent,
          checked, resolved, globalMigration, legacy, notNow, migration, active, waiting,
          requests, commands, changed, classified>>

----------------------------------------------------------------------------
(* Bounds *)

\* number of documents the editor can have open
MaxDocs == 3
\* longest validate / probe list a configuration of the session carries
MaxListLen == 2
\* longest validate / probe list given to Validator.check on its own
MaxCheckLen == 2
\* readConfiguration calls that can be in progress at once
MaxRequests == 2
\* items of one ConfigurationParams
MaxItems == 1
\* runs of the command eslint.migrateSettings that can be in progress at once
MaxCommands == 1
\* items of one ConfigurationParams when items of every kind are mixed
MaxBatch == 2
\* entries of the setting eslint.workingDirectories
MaxRules == 3
\* entries of the setting eslint.rules.customizations
MaxCustomizations == 2
\* entries of eslint.workingDirectories when the whole settings object is built
MaxSettingsRules == 1

----------------------------------------------------------------------------
(* Documents *)

DocTable ==
    << [uri |-> "file:///ws/a.js",         languageId |-> "javascript", scheme |-> "file",
        name |-> "a.js"],
       [uri |-> "file:///ws/package.json", languageId |-> "json",       scheme |-> "file",
        name |-> "package.json"],
       [uri |-> "vscode-notebook-cell:/ws/n.ipynb#c1", languageId |-> "javascript",
        scheme |-> "vscode-notebook-cell", name |-> "n.ipynb"],
       [uri |-> "untitled:Untitled-1",     languageId |-> "typescript", scheme |-> "untitled",
        name |-> "Untitled-1"],
       [uri |-> "file:///ws/.eslintrc.json", languageId |-> "json",     scheme |-> "file",
        name |-> ".eslintrc.json"] >>

Min(a, b) == IF a < b THEN a ELSE b

Documents == { DocTable[i] : i \in 1..Min(MaxDocs, Len(DocTable)) }
Uris == { d.uri : d \in Documents }
Document(u) == CHOOSE d \in Documents : d.uri = u

NoUri == "none"

\* nothing was computed on its own yet
Unresolved == [input |-> "none", done |-> FALSE, output |-> "none"]

\* the documents that reach the client through the notebook synchronisation
CellUris == { u \in Uris : Document(u).scheme = "vscode-notebook-cell" }
\* the documents that reach the client through the text document synchronisation
TextUris == Uris \ CellUris

----------------------------------------------------------------------------
(* Configuration values *)

\* an entry of eslint.validate: a string, a ValidateItem ({language}) or neither
ValidateEntrySeq ==
    << [kind |-> "string", language |-> "javascript"],
       [kind |-> "item",   language |-> "json"],
       [kind |-> "other",  language |-> "javascript"] >>
ProbeEntrySeq == << "javascript", "json" >>

Range(s) == { s[i] : i \in 1..Len(s) }
IndexIn(s, e) == CHOOSE i \in 1..Len(s) : s[i] = e
SeqsUpTo(S, n) == UNION { [1..k -> S] : k \in 0..n }

\* Map.has, Map.set and Map.delete on the keys of a Map, kept in insertion
\* order: set on a key the map has leaves the key where it is
Has(m, u) == \E i \in 1..Len(m) : m[i] = u
MapSet(m, u) == IF Has(m, u) THEN m ELSE Append(m, u)
MapDelete(m, u) == LET Other(x) == x # u IN SelectSeq(m, Other)

\* the documents of the set S in the order of the notebook (of DocTable)
InOrder(S) ==
    LET InS(d) == d.uri \in S
        ds == SelectSeq(DocTable, InS)
    IN  [i \in 1..Len(ds) |-> ds[i].uri]

RECURSIVE MapSetAll(_, _)
MapSetAll(m, us) == IF us = <<>> THEN m ELSE MapSetAll(MapSet(m, Head(us)), Tail(us))

RECURSIVE MapDeleteAll(_, _)
MapDeleteAll(m, us) == IF us = <<>> THEN m ELSE MapDeleteAll(MapDelete(m, Head(us)), Tail(us))

\* a list setting: isArray is what Array.isArray answers for it
ListValues(S, n) == { [isArray |-> TRUE, items |-> s] : s \in SeqsUpTo(S, n) }
                      \cup { [isArray |-> FALSE, items |-> <<>>] }

\* the lists over the entries of `entries`, without repetition and in the
\* order of `entries`
OrderedLists(entries, n) ==
    { [isArray |-> TRUE, items |-> s] :
        s \in { t \in SeqsUpTo(Range(entries), n) :
                  \A i \in 1..Len(t), j \in 1..Len(t) :
                      i < j => IndexIn(entries, t[i]) < IndexIn(entries, t[j]) } }

\* the configurations a call of Validator.check is tried on
CheckConfigs ==
    [enable : BOOLEAN,
     validate : ListValues(Range(ValidateEntrySeq), MaxCheckLen),
     probe : ListValues(Range(ProbeEntrySeq), MaxCheckLen)]

\* the configurations of a session: well-formed lists
Configs ==
    [enable : BOOLEAN,
     validate : OrderedLists(SubSeq(ValidateEntrySeq, 1, 2), MaxListLen),
     probe : OrderedLists(ProbeEntrySeq, MaxListLen)]

DefaultConfig ==
    [enable |-> TRUE,
     validate |-> [isArray |-> FALSE, items |-> <<>>],
     probe |-> [isArray |-> TRUE, items |-> <<"javascript">>]]

----------------------------------------------------------------------------
(* Validator *)

IsString(item) == item.kind = "string"
ValidateItemIs(item) == item.kind = "item"

\* client.ts:46-52, the loop over the validate list from entry i on
RECURSIVE ValidateLoop(_, _, _)
ValidateLoop(items, i, languageId) ==
    IF i > Len(items) THEN FALSE
    ELSE IF IsString(items[i]) /\ items[i].language = languageId THEN TRUE
    ELSE IF ValidateItemIs(items[i]) /\ items[i].language = languageId THEN TRUE
    ELSE ValidateLoop(items, i + 1, languageId)

\* client.ts:60-64, the loop over the probe list from entry i on
RECURSIVE ProbeLoop(_, _, _)
ProbeLoop(items, i, languageId) ==
    IF i > Len(items) THEN FALSE
    ELSE IF items[i] = languageId THEN TRUE
    ELSE ProbeLoop(items, i + 1, languageId)

\* a plausible slip: the probe list is consulted before the failed probes
checkProbeFirst(cfg, failed, uri, languageId) ==
    IF ~cfg.enable THEN "off"
    ELSE IF cfg.validate.isArray /\ ValidateLoop(cfg.validate.items, 1, languageId) THEN "on"
    ELSE IF cfg.probe.isArray /\ ProbeLoop(cfg.probe.items, 1, languageId) THEN "probe"
    ELSE "off"

\* Validator.check, client.ts:38-67
check(cfg, failed, uri, languageId) ==
    IF ~cfg.enable THEN "off"
    ELSE IF cfg.validate.isArray /\ ValidateLoop(cfg.validate.items, 1, languageId) THEN "on"
    ELSE IF uri \in failed THEN "off"
    ELSE IF cfg.probe.isArray /\ ProbeLoop(cfg.probe.items, 1, languageId) THEN "probe"
    ELSE "off"

\* Validator.check on a document of the session, in the current state
Classify(u) == check(config, probeFailed, u, Document(u).languageId)

----------------------------------------------------------------------------
(* Document filters *)

\* packageJsonFilter, client.ts:113
MatchPackageJson(d) == d.scheme = "file" /\ d.name = "package.json"

\* configFileFilter, client.ts:114
MatchConfigFile(d) ==
    d.scheme = "file" /\ d.name \in { ".eslintrc.js", ".eslintrc.yaml", ".eslintrc.yml",
                                      ".eslintrc", ".eslintrc.json", "eslint.config.js" }

AlwaysSync(u) == MatchPackageJson(Document(u)) \/ MatchConfigFile(Document(u))

\* documentSelector, client.ts:388: the documents the text synchronisation features
\* (and so getProvider of the open and close features) answer for
SelectorMatches(u) == Document(u).scheme \in {"file", "untitled"}

----------------------------------------------------------------------------
(* Middleware.  A handler works on st = [synced, sent]: the keys of            *)
(* syncedDocuments in insertion order and the notifications passed to          *)
(* next(...) so far.                                                           *)

Notification(method, u) == [method |-> method, uri |-> u]

\* a plausible slip: the always-sync filters are forgotten
didOpenNoFilter(st, cfg, failed, u) ==
    IF check(cfg, failed, u, Document(u).languageId) # "off"
    THEN [synced |-> MapSet(st.synced, u),
          sent |-> Append(st.sent, Notification("didOpen", u))]
    ELSE st

\* middleware.didOpen, client.ts:419-425
didOpen(st, cfg, failed, u) ==
    IF \/ MatchPackageJson(Document(u))
       \/ MatchConfigFile(Document(u))
       \/ check(cfg, failed, u, Document(u).languageId) # "off"
    THEN [synced |-> MapSet(st.synced, u),
          sent |-> Append(st.sent, Notification("didOpen", u))]
    ELSE st

\* a plausible slip: the close is forwarded whether the document is synced or not
didCloseNoHas(st, u) ==
    [synced |-> MapDelete(st.synced, u), sent |-> Append(st.sent, Notification("didClose", u))]

\* a plausible slip: the close is forwarded but the map keeps the document
didCloseKeep(st, u) ==
    IF Has(st.synced, u)
    THEN [synced |-> st.synced, sent |-> Append(st.sent, Notification("didClose", u))]
    ELSE st

\* middleware.didClose, client.ts:448-454
didClose(st, u) ==
    IF Has(st.synced, u)
    THEN [synced |-> MapDelete(st.synced, u),
          sent |-> Append(st.sent, Notification("didClose", u))]
    ELSE st

\* client.getFeature(DidOpenTextDocumentNotification.method).getProvider(d)?.send(d),
\* client.ts:159-160: the provider exists for the documents of the selector and
\* its send runs the middleware
SendOpen(st, cfg, failed, u) ==
    IF SelectorMatches(u) THEN didOpen(st, cfg, failed, u) ELSE st

\* client.getFeature(DidCloseTextDocumentNotification.method).getProvider(d)?.send(d),
\* client.ts:153-154 and 286
SendClose(st, u) ==
    IF SelectorMatches(u) THEN didClose(st, u) ELSE st

\* notebookDocumentOptions.filterCells, client.ts:526-535
filterCells(cfg, failed, cells) ==
    { c \in cells : \/ MatchPackageJson(Document(c))
                    \/ MatchConfigFile(Document(c))
                    \/ check(cfg, failed, c, Document(c).languageId) # "off" }

----------------------------------------------------------------------------
(* The configuration change handler, client.ts:149-163 *)

\* client.ts:151-156: the loop over syncedDocuments.values(), in the insertion
\* order of the map; todo is what the iteration still has to visit
RECURSIVE CloseLoop(_, _, _, _)
CloseLoop(st, cfg, failed, todo) ==
    IF todo = <<>> THEN st
    ELSE LET u == Head(todo)
             st1 == IF check(cfg, failed, u, Document(u).languageId) = "off"
                    THEN SendClose(st, u)
                    ELSE st
         IN  CloseLoop(st1, cfg, failed, Tail(todo))

\* a plausible slip: the loop does not ask whether the document is synced already
RECURSIVE OpenLoopNoHas(_, _, _, _)
OpenLoopNoHas(st, cfg, failed, todo) ==
    IF todo = <<>> THEN st
    ELSE LET u == Head(todo)
             st1 == IF check(cfg, failed, u, Document(u).languageId) # "off"
                    THEN SendOpen(st, cfg, failed, u)
                    ELSE st
         IN  OpenLoopNoHas(st1, cfg, failed, Tail(todo))

\* client.ts:157-162: the loop over Workspace.textDocuments, in its order
RECURSIVE OpenLoop(_, _, _, _)
OpenLoop(st, cfg, failed, todo) ==
    IF todo = <<>> THEN st
    ELSE LET u == Head(todo)
             st1 == IF /\ ~Has(st.synced, u)
                       /\ check(cfg, failed, u, Document(u).languageId) # "off"
                    THEN SendOpen(st, cfg, failed, u)
                    ELSE st
         IN  OpenLoop(st1, cfg, failed, Tail(todo))

\* the whole pass on the map `synced`, with the documents `open` in the editor,
\* under configuration cfg; validator.clear() has emptied the failed probes
Reconcile(synced, open, cfg) ==
    OpenLoop(CloseLoop([synced |-> synced, sent |-> <<>>], cfg, {}, synced), cfg, {}, open)

----------------------------------------------------------------------------
(* Events of the session *)

Event(type, u) == [type |-> type, uri |-> u]

InitSync ==
    /\ config \in Configs
    /\ textDocuments = <<>>
    /\ notebookOpen = FALSE
    /\ syncedDocuments = <<>>
    /\ probeFailed = {}
    /\ sent = <<>>
    /\ lastEvent = Event("start", NoUri)
    /\ classified = [u \in Uris |-> "none"]
    /\ checked = [uri |-> NoUri, result |-> "off"]
    /\ resolved = Unresolved

\* the editor opens a text document: Workspace.textDocuments gains it and the
\* open feature runs middleware.didOpen (client.ts:419-425)
EditorOpen(u) ==
    /\ u \in TextUris \ Range(textDocuments)
    /\ textDocuments' = Append(textDocuments, u)
    /\ LET st == SendOpen([synced |-> syncedDocuments, sent |-> <<>>], config, probeFailed, u)
       IN  /\ syncedDocuments' = st.synced
           /\ sent' = st.sent
    /\ classified' = IF AlwaysSync(u) THEN classified
                      ELSE [classified EXCEPT ![u] = check(config, probeFailed, u,
                                                           Document(u).languageId)]
    /\ lastEvent' = Event("didOpen", u)
    /\ UNCHANGED <<config, notebookOpen, probeFailed, pureVars, migVars>>

\* the editor closes a text document: middleware.didClose (client.ts:448-454)
EditorClose(u) ==
    /\ u \in TextUris \cap Range(textDocuments)
    /\ textDocuments' = MapDelete(textDocuments, u)
    /\ LET st == SendClose([synced |-> syncedDocuments, sent |-> <<>>], u)
       IN  /\ syncedDocuments' = st.synced
           /\ sent' = st.sent
    /\ classified' = [classified EXCEPT ![u] = "none"]
    /\ lastEvent' = Event("didClose", u)
    /\ UNCHANGED <<config, notebookOpen, probeFailed, pureVars, migVars>>

\* a plausible slip: the set survives
clearKeep(failed) == failed

\* client.ts:30-32: Validator.clear
clear(failed) == {}

\* Workspace.onDidChangeConfiguration, client.ts:149-163: the settings become cfg
\* and the handler runs
ConfigurationChanged(cfg) ==
    /\ config' = cfg
    /\ probeFailed' = clear(probeFailed)
    /\ LET st == Reconcile(syncedDocuments, textDocuments, cfg)
       IN  /\ syncedDocuments' = st.synced
           /\ sent' = st.sent
    /\ classified' = [u \in Uris |->
                         IF Has(syncedDocuments, u) \/ Has(textDocuments, u)
                         THEN check(cfg, {}, u, Document(u).languageId)
                         ELSE classified[u]]
    /\ lastEvent' = Event("didChangeConfiguration", NoUri)
    /\ UNCHANGED <<textDocuments, notebookOpen, pureVars, migVars>>

\* the sections the configuration feature of the language client gives to the
\* middleware: undefined, an empty list or a list of names
SectionValues ==
    { [defined |-> FALSE, names |-> <<>>],
      [defined |-> TRUE,  names |-> <<>>],
      [defined |-> TRUE,  names |-> <<"eslint">>] }

\* middleware.workspace.didChangeConfiguration, client.ts:511-519: while a
\* Migration is in flight a change without sections is handed to
\* migration.captureDidChangeSetting and nothing is passed on now
didChangeConfiguration(inFlight, sections) ==
    IF inFlight # NoUri /\ (~sections.defined \/ Len(sections.names) = 0)
    THEN <<>>
    ELSE <<Notification("workspace/didChangeConfiguration", NoUri)>>

\* the configuration feature of the language client reports a change of the
\* settings to the server through the middleware
DidChangeConfiguration(sections) ==
    /\ sent' = didChangeConfiguration(migration, sections)
    /\ lastEvent' = Event("workspace/didChangeConfiguration", NoUri)
    /\ UNCHANGED <<config, textDocuments, notebookOpen, syncedDocuments, probeFailed, classified,
                   pureVars, migVars>>

\* a plausible slip: the failed probe is not recorded
ProbeFailedNoAdd(failed, u) == failed

\* validator.add(uri), client.ts:34-36 and 282
ProbeFailedAdd(failed, u) == failed \cup {u}

\* client.ts:284-288: the loop over Workspace.textDocuments
ProbeFailedClose(st, open, u) ==
    IF Has(open, u) THEN SendClose(st, u) ELSE st

\* client.onRequest(ProbeFailedRequest.type), client.ts:281-289
ProbeFailedRequest(u) ==
    /\ probeFailed' = ProbeFailedAdd(probeFailed, u)
    /\ LET st == ProbeFailedClose([synced |-> syncedDocuments, sent |-> <<>>], textDocuments, u)
       IN  /\ syncedDocuments' = st.synced
           /\ sent' = st.sent
    /\ classified' = [classified EXCEPT ![u] = "none"]
    /\ lastEvent' = Event("probeFailed", u)
    /\ UNCHANGED <<config, textDocuments, notebookOpen, pureVars, migVars>>

\* middleware.workspace.didChangeWatchedFile, client.ts:507-510
DidChangeWatchedFile ==
    /\ probeFailed' = clear(probeFailed)
    /\ sent' = <<Notification("didChangeWatchedFiles", NoUri)>>
    /\ lastEvent' = Event("didChangeWatchedFile", NoUri)
    /\ UNCHANGED <<config, textDocuments, notebookOpen, syncedDocuments, classified, pureVars,
                   migVars>>

\* middleware.notebooks.didOpen, client.ts:456-462: the editor opens the notebook,
\* its cells become text documents, and the cells filterCells keeps are synced,
\* in the order of the notebook
NotebookDidOpen(cells) ==
    /\ ~notebookOpen
    /\ cells \subseteq CellUris
    /\ notebookOpen' = TRUE
    /\ textDocuments' = textDocuments \o InOrder(cells \ Range(textDocuments))
    /\ LET kept == filterCells(config, probeFailed, cells)
       IN  IF kept # {}
           THEN /\ syncedDocuments' = MapSetAll(syncedDocuments, InOrder(kept))
                /\ sent' = <<Notification("notebookDidOpen", NoUri)>>
           ELSE /\ syncedDocuments' = syncedDocuments
                /\ sent' = <<>>
    /\ classified' = [u \in Uris |->
                         IF u \in cells
                         THEN check(config, probeFailed, u, Document(u).languageId)
                         ELSE classified[u]]
    /\ lastEvent' = Event("notebookDidOpen", NoUri)
    /\ UNCHANGED <<config, probeFailed, pureVars, migVars>>

\* middleware.notebooks.didChange, client.ts:463-475: cells were added to the
\* notebook (those filterCells keeps are in structure.didOpen) or removed from it
\* (those that were synced are in structure.didClose)
NotebookDidChange(added, removed) ==
    /\ notebookOpen
    /\ added \subseteq CellUris \ Range(textDocuments)
    /\ removed \subseteq CellUris \cap Range(textDocuments)
    /\ added \cup removed # {}
    /\ textDocuments' = MapDeleteAll(textDocuments, InOrder(removed)) \o InOrder(added)
    /\ LET opened == filterCells(config, probeFailed, added)
           closed == removed \cap Range(syncedDocuments)
       IN  IF opened \cup closed # {}
           THEN /\ syncedDocuments' =
                      MapDeleteAll(MapSetAll(syncedDocuments, InOrder(opened)), InOrder(closed))
                /\ sent' = <<Notification("notebookDidChange", NoUri)>>
           ELSE /\ syncedDocuments' = syncedDocuments
                /\ sent' = <<>>
    /\ classified' = [u \in Uris |->
                         IF u \in added
                         THEN check(config, probeFailed, u, Document(u).languageId)
                         ELSE IF u \in removed THEN "none"
                         ELSE classified[u]]
    /\ lastEvent' = Event("notebookDidChange", NoUri)
    /\ UNCHANGED <<config, notebookOpen, probeFailed, pureVars, migVars>>

\* middleware.notebooks.didClose, client.ts:476-482: the notebook closes with
\* the cells it still has
NotebookDidClose ==
    /\ notebookOpen
    /\ notebookOpen' = FALSE
    /\ textDocuments' = MapDeleteAll(textDocuments, InOrder(CellUris))
    /\ syncedDocuments' = MapDeleteAll(syncedDocuments, InOrder(CellUris \cap Range(textDocuments)))
    /\ sent' = <<Notification("notebookDidClose", NoUri)>>
    /\ classified' = [u \in Uris |-> IF u \in CellUris THEN "none" ELSE classified[u]]
    /\ lastEvent' = Event("notebookDidClose", NoUri)
    /\ UNCHANGED <<config, probeFailed, pureVars, migVars>>

----------------------------------------------------------------------------
(* readConfiguration and the migration workflow, client.ts:541-721 *)

Requests == 1..MaxRequests

\* the runs of the command eslint.migrateSettings that can be in progress
Commands == 1..MaxCommands

\* a command that is not running: `landed` says that the write the run waits
\* for has reached the settings, `errors` counts the error messages its last
\* run has shown
IdleCommand == [pc |-> "idle", folder |-> NoUri, landed |-> FALSE, errors |-> 0]

\* new Semaphore<void>(1), client.ts:129
\* a plausible slip: a semaphore of two slots
CapacityTwo == 1 + 1
Capacity == 1

\* Semaphore.lock (node-utils): a waiting thunk is run when a slot is free
CanRun(w, a) == w # <<>> /\ a < Capacity

\* a plausible slip: the slot is given back only when the thunk is fulfilled
ReleasedOnFulfilOnly(a, rejected) == IF rejected THEN a ELSE a - 1

\* Semaphore.lock (node-utils): the promise of the thunk settles and the slot
\* is given back, whether the thunk was fulfilled or rejected
Released(a, rejected) == a - 1

\* a plausible slip: the record is dropped at the end of the try block only
migrationAfterTry(m, thrown) == IF thrown THEN m ELSE NoUri

\* client.ts:599-601: the finally block, run whether the try block completed
\* or threw
migrationAfter(m, thrown) == NoUri

\* the variables of the documents that readConfiguration only reads
docVars == <<config, textDocuments, notebookOpen, syncedDocuments, probeFailed>>

\* an item of ConfigurationParams: section given or not, scopeUri or NoUri
Items(uris) == [section : BOOLEAN, scopeUri : uris \cup {NoUri}]
ItemLists(uris) == SeqsUpTo(Items(uris), MaxItems)

NullResult == [null |-> TRUE, validate |-> "off"]
Settings(validate) == [null |-> FALSE, validate |-> validate]

\* a request that was not made yet; `landed` says that the write the request
\* waits for has reached the settings
IdleRequest ==
    [pc |-> "idle", items |-> <<>>, idx |-> 0, result |-> <<>>, enabled |-> TRUE, reported |-> 0,
     landed |-> FALSE]

\* a plausible slip: the newest thunk is put in front of the older ones
EnqueueFirst(w, r) == <<r>> \o w

\* Semaphore.lock (node-utils): the thunk is put behind the thunks that wait
Enqueue(w, r) == Append(w, r)

\* a plausible slip: an item that is not answered here gets no result at all
RECURSIVE NextScopedSkip(_, _, _)
NextScopedSkip(items, i, result) ==
    IF i > Len(items) THEN [pc |-> "done", idx |-> i, result |-> result]
    ELSE IF items[i].section \/ items[i].scopeUri = NoUri
         THEN NextScopedSkip(items, i + 1, result)
         ELSE [pc |-> "waiting", idx |-> i, result |-> result]

\* a plausible slip: the lock is taken only for a resource that needs the
\* update, and the settings of any other item are built at once
RECURSIVE NextScopedLockIfNeeded(_, _, _)
NextScopedLockIfNeeded(items, i, result) ==
    IF i > Len(items) THEN [pc |-> "done", idx |-> i, result |-> result]
    ELSE IF items[i].section \/ items[i].scopeUri = NoUri
         THEN NextScopedLockIfNeeded(items, i + 1, Append(result, NullResult))
         ELSE IF ~legacy[items[i].scopeUri]
         THEN NextScopedLockIfNeeded(items, i + 1,
                  Append(result, [null |-> FALSE, validate |-> "off"]))
         ELSE [pc |-> "waiting", idx |-> i, result |-> result]

\* client.ts:546-557: the loop from item i on, up to the next item that takes
\* the lock ("waiting") or to the end of the items ("done")
RECURSIVE NextScoped(_, _, _)
NextScoped(items, i, result) ==
    IF i > Len(items) THEN [pc |-> "done", idx |-> i, result |-> result]
    ELSE IF items[i].section \/ items[i].scopeUri = NoUri
         THEN NextScoped(items, i + 1, Append(result, NullResult))
         ELSE [pc |-> "waiting", idx |-> i, result |-> result]

\* client.ts:604-633: the settings of the item with scope u; `enabled` is
\* config.get('enabled', true) on the configuration read at client.ts:553
BuildSettings(synced, cfg, failed, u, enabled) ==
    IF ~Has(synced, u) THEN Settings("off")
    ELSE IF enabled THEN Settings(check(cfg, failed, u, Document(u).languageId))
    ELSE Settings("off")

\* migration.record() and migration.needsUpdate(), client.ts:562 and 566
needsUpdate(u) == legacy[u]

\* client.ts:604-719 and 546-557: the lock is released for request r, whose
\* record is q; its settings are built and the loop goes on to the next item
AfterLock(r, q, w, synced, cfg, failed, en) ==
    LET u == q.items[q.idx].scopeUri
        n == NextScoped(q.items, q.idx + 1,
                        Append(q.result, BuildSettings(synced, cfg, failed, u, q.enabled)))
    IN  [requests |-> [requests EXCEPT ![r] =
                          [q EXCEPT !.pc = n.pc, !.idx = n.idx, !.result = n.result,
                                    !.enabled = IF n.pc = "waiting" THEN en ELSE TRUE,
                                    !.landed = FALSE]],
         waiting  |-> IF n.pc = "waiting" THEN Enqueue(w, r) ELSE w,
         classified |-> IF Has(synced, u) /\ q.enabled
                        THEN [classified EXCEPT ![u] = check(cfg, failed, u,
                                                             Document(u).languageId)]
                        ELSE classified]

\* readConfiguration is called, client.ts:541-557
ReadConfiguration(r, items, en) ==
    /\ requests[r].pc \in {"idle", "done", "failed"}
    /\ LET n == NextScoped(items, 1, <<>>)
       IN  /\ requests' = [requests EXCEPT ![r] =
                             [pc |-> n.pc, items |-> items, idx |-> n.idx, result |-> n.result,
                              enabled |-> IF n.pc = "waiting" THEN en ELSE TRUE,
                              reported |-> 0, landed |-> FALSE]]
           /\ waiting' = IF n.pc = "waiting" THEN Enqueue(waiting, r) ELSE waiting
    /\ sent' = <<>>
    /\ lastEvent' = Event("configuration", NoUri)
    /\ UNCHANGED <<docVars, classified, pureVars, commands, changed, globalMigration, legacy,
                   notNow, migration, active>>

\* a plausible slip: the guard looks at the global setting only
ShouldMigrateIgnoreDefer(flag, global) == global = "on"

\* client.ts:558-559: the guard of the migration workflow, on notNow and on the
\* global setting eslint.migration.2_x
ShouldMigrate(flag, global) == flag = FALSE /\ global = "on"

\* the semaphore runs the oldest waiting thunk, client.ts:557-569: without a
\* prompt the thunk ends at once and the lock is released
RunNext(en) ==
    /\ CanRun(waiting, active)
    /\ LET r == Head(waiting)
           q == requests[r]
           u == q.items[q.idx].scopeUri
       IN  IF ShouldMigrate(notNow, globalMigration) /\ needsUpdate(u)
           THEN /\ migration' = u
                /\ active' = active + 1
                /\ waiting' = Tail(waiting)
                /\ requests' = [requests EXCEPT ![r].pc = "prompt"]
                /\ UNCHANGED classified
           ELSE LET a == AfterLock(r, q, Tail(waiting), syncedDocuments, config, probeFailed, en)
                IN  /\ migration' = IF ShouldMigrate(notNow, globalMigration)
                                    THEN migrationAfter(u, FALSE) ELSE migration
                    /\ active' = active
                    /\ waiting' = a.waiting
                    /\ requests' = a.requests
                    /\ classified' = a.classified
    /\ sent' = <<>>
    /\ lastEvent' = Event("runThunk", requests[Head(waiting)].items[requests[Head(waiting)].idx].scopeUri)
    /\ UNCHANGED <<docVars, pureVars, commands, changed, globalMigration, legacy, notNow>>

\* a plausible slip: a prompt that returns no selection defers as well
notNowAfterDismiss(selected, flag) ==
    IF selected \in {"no", "readme", "undefined"} THEN TRUE ELSE flag

\* a plausible slip: only 'Not now' defers
notNowAfterOnlyNo(selected, flag) == IF selected = "no" THEN TRUE ELSE flag

\* client.ts:582-597: notNow after the prompt answered `selected`
notNowAfter(selected, flag) == IF selected \in {"no", "readme"} THEN TRUE ELSE flag

Selections == {"yes", "global", "readme", "no", "undefined"}

\* Window.showInformationMessage resolves with `selected`, client.ts:569-598
PromptAnswered(r, selected, en) ==
    /\ requests[r].pc = "prompt"
    /\ notNow' = notNowAfter(selected, notNow)
    /\ IF selected = "yes"
       THEN /\ requests' = [requests EXCEPT ![r].pc = "update"]
            /\ UNCHANGED <<migration, active, waiting, classified>>
       ELSE IF selected = "global"
       THEN /\ requests' = [requests EXCEPT ![r].pc = "globalUpdate"]
            /\ UNCHANGED <<migration, active, waiting, classified>>
       ELSE LET a == AfterLock(r, requests[r], waiting, syncedDocuments, config, probeFailed, en)
            IN  /\ migration' = migrationAfter(migration, FALSE)
                /\ active' = Released(active, FALSE)
                /\ waiting' = a.waiting
                /\ requests' = a.requests
                /\ classified' = a.classified
    /\ sent' = <<>>
    /\ lastEvent' = Event(selected, requests[r].items[requests[r].idx].scopeUri)
    /\ UNCHANGED <<docVars, pureVars, commands, changed, globalMigration, legacy>>

\* the handler of Workspace.onDidChangeConfiguration (client.ts:149-163) runs
\* for a write of the settings: a callback of its own
SettingsWritten ==
    /\ probeFailed' = clear(probeFailed)
    /\ LET st == Reconcile(syncedDocuments, textDocuments, config)
       IN  /\ syncedDocuments' = st.synced
           /\ sent' = st.sent
    /\ classified' = [u \in Uris |->
                         IF Has(syncedDocuments, u) \/ Has(textDocuments, u)
                         THEN check(config, {}, u, Document(u).languageId)
                         ELSE classified[u]]
    /\ UNCHANGED <<config, textDocuments, notebookOpen>>

\* the handler runs for a write whose continuation ran before it
SettingsChangeDelivered ==
    /\ changed > 0
    /\ changed' = changed - 1
    /\ SettingsWritten
    /\ lastEvent' = Event("didChangeConfiguration", NoUri)
    /\ UNCHANGED <<pureVars, globalMigration, legacy, notNow, migration, active, waiting,
                   requests, commands>>

\* the write request r waits for at client.ts:585 or 592 reaches the settings
\* and its change event is delivered: the handler runs while the request still
\* waits at the await
WriteLanded(r) ==
    /\ requests[r].pc \in {"update", "globalUpdate"}
    /\ ~requests[r].landed
    /\ IF requests[r].pc = "update"
       THEN /\ legacy' = [legacy EXCEPT ![requests[r].items[requests[r].idx].scopeUri] = FALSE]
            /\ UNCHANGED globalMigration
       ELSE /\ globalMigration' = "off"
            /\ UNCHANGED legacy
    /\ requests' = [requests EXCEPT ![r].landed = TRUE]
    /\ SettingsWritten
    /\ lastEvent' = Event("didChangeConfiguration", NoUri)
    /\ UNCHANGED <<pureVars, notNow, migration, active, waiting, commands, changed>>

\* a plausible slip: the failure is swallowed
migrationFailedSilent(reported) == reported

\* client.ts:77-86: the error is written to the client's channel and one error
\* message is shown; `reported` counts the reports of a request
migrationFailed(reported) == reported + 1

\* migration.update() settles, client.ts:584-588 and 599-601: the continuation
\* of the await. A fulfilled write has landed before (WriteLanded), or it lands
\* now and its change event is still to be delivered; a write that landed is
\* not rejected
UpdateDone(r, ok, en) ==
    /\ requests[r].pc = "update"
    /\ ok \/ ~requests[r].landed
    /\ LET u == requests[r].items[requests[r].idx].scopeUri
           q == [requests[r] EXCEPT !.reported = IF ok THEN @ ELSE migrationFailed(@)]
           a == AfterLock(r, q, waiting, syncedDocuments, config, probeFailed, en)
       IN  /\ legacy' = IF ok THEN [legacy EXCEPT ![u] = FALSE] ELSE legacy
           /\ lastEvent' = Event(IF ok THEN "updated" ELSE "updateFailed", u)
           /\ waiting' = a.waiting
           /\ requests' = a.requests
           /\ classified' = a.classified
    /\ changed' = IF ok /\ ~requests[r].landed THEN changed + 1 ELSE changed
    /\ sent' = <<>>
    /\ migration' = migrationAfter(migration, FALSE)
    /\ active' = Released(active, FALSE)
    /\ UNCHANGED <<docVars, pureVars, commands, globalMigration, notNow>>

\* config.update('migration.2_x', 'off', Global) settles, client.ts:592 and
\* 599-601: the continuation of the await; a rejection leaves the try block
\* and rejects readConfiguration
GlobalUpdateDone(r, ok, en) ==
    /\ requests[r].pc = "globalUpdate"
    /\ ok \/ ~requests[r].landed
    /\ IF ok
       THEN /\ globalMigration' = "off"
            /\ changed' = IF requests[r].landed THEN changed ELSE changed + 1
            /\ LET a == AfterLock(r, requests[r], waiting, syncedDocuments, config, probeFailed, en)
               IN  /\ waiting' = a.waiting
                   /\ requests' = a.requests
                   /\ classified' = a.classified
       ELSE /\ requests' = [requests EXCEPT ![r].pc = "failed"]
            /\ UNCHANGED <<changed, globalMigration, waiting, classified>>
    /\ sent' = <<>>
    /\ lastEvent' = Event(IF ok THEN "globalUpdated" ELSE "globalUpdateFailed",
                          requests[r].items[requests[r].idx].scopeUri)
    /\ migration' = migrationAfter(migration, ~ok)
    /\ active' = Released(active, ~ok)
    /\ UNCHANGED <<docVars, pureVars, commands, legacy, notNow>>

\* the resources configuration is asked for while the migration is studied
MigrationUris == { DocTable[1].uri, DocTable[2].uri }

\* the command eslint.migrateSettings is run, client.ts:88-95: without
\* workspace folders it shows an error message and ends; with folders it waits
\* for pickFolder
MigrateSettings(c, folders) ==
    /\ commands[c].pc = "idle"
    /\ commands' = [commands EXCEPT ![c] =
                       IF folders
                       THEN [IdleCommand EXCEPT !.pc = "picking"]
                       ELSE [IdleCommand EXCEPT !.errors = 1]]
    /\ sent' = <<>>
    /\ lastEvent' = Event(IF folders THEN "migrateSettings" ELSE "noWorkspaceFolder", NoUri)
    /\ UNCHANGED <<docVars, classified, pureVars, changed, globalMigration, legacy, notNow,
                   migration, active, waiting, requests>>

\* pickFolder resolves, client.ts:95-101: without a folder the command ends;
\* with one, the settings of the folder are recorded and, if they need the
\* update, migration.update() is started. migrationSemaphore is not taken.
FolderPicked(c, folder) ==
    /\ commands[c].pc = "picking"
    /\ commands' = [commands EXCEPT ![c] =
                       IF folder # NoUri /\ needsUpdate(folder)
                       THEN [IdleCommand EXCEPT !.pc = "update", !.folder = folder]
                       ELSE IdleCommand]
    /\ sent' = <<>>
    /\ lastEvent' = Event("folderPicked", folder)
    /\ UNCHANGED <<docVars, classified, pureVars, changed, globalMigration, legacy, notNow,
                   migration, active, waiting, requests>>

\* the write the command waits for at client.ts:103 reaches the settings and
\* its change event is delivered: the handler runs while the command still
\* waits at the await
CommandWriteLanded(c) ==
    /\ commands[c].pc = "update"
    /\ ~commands[c].landed
    /\ legacy' = [legacy EXCEPT ![commands[c].folder] = FALSE]
    /\ commands' = [commands EXCEPT ![c].landed = TRUE]
    /\ SettingsWritten
    /\ lastEvent' = Event("didChangeConfiguration", NoUri)
    /\ UNCHANGED <<pureVars, globalMigration, notNow, migration, active, waiting, requests,
                   changed>>

\* migration.update() of the command settles, client.ts:101-106: the
\* continuation of the await; a rejection is reported by migrationFailed
CommandUpdateDone(c, ok) ==
    /\ commands[c].pc = "update"
    /\ ok \/ ~commands[c].landed
    /\ legacy' = IF ok THEN [legacy EXCEPT ![commands[c].folder] = FALSE] ELSE legacy
    /\ changed' = IF ok /\ ~commands[c].landed THEN changed + 1 ELSE changed
    /\ sent' = <<>>
    /\ lastEvent' = Event(IF ok THEN "commandUpdated" ELSE "commandUpdateFailed",
                          commands[c].folder)
    /\ commands' = [commands EXCEPT ![c] =
                       [IdleCommand EXCEPT !.errors = IF ok THEN 0 ELSE migrationFailed(0)]]
    /\ UNCHANGED <<docVars, classified, pureVars, globalMigration, notNow, migration, active,
                   waiting, requests>>

\* the batches asked while the migration is studied: items with a scope
MigrationItemLists ==
    SeqsUpTo({ i \in Items(MigrationUris) : ~i.section /\ i.scopeUri # NoUri }, MaxItems)

InitMig(legacies) ==
    /\ globalMigration = "on"
    /\ legacy \in legacies
    /\ notNow = FALSE
    /\ migration = NoUri
    /\ active = 0
    /\ waiting = <<>>
    /\ requests = [r \in Requests |-> IdleRequest]
    /\ commands = [c \in Commands |-> IdleCommand]
    /\ changed = 0

Init == InitSync /\ InitMig({[u \in Uris |-> FALSE]})

NextMigration ==
    \/ \E r \in Requests, items \in MigrationItemLists : ReadConfiguration(r, items, TRUE)
    \/ RunNext(TRUE)
    \/ \E r \in Requests, selected \in Selections : PromptAnswered(r, selected, TRUE)
    \/ \E r \in Requests, ok \in BOOLEAN : UpdateDone(r, ok, TRUE)
    \/ \E r \in Requests, ok \in BOOLEAN : GlobalUpdateDone(r, ok, TRUE)
    \/ \E r \in Requests : WriteLanded(r)
    \/ SettingsChangeDelivered

InitMigration ==
    /\ config = DefaultConfig
    /\ textDocuments = <<>>
    /\ notebookOpen = FALSE
    /\ syncedDocuments = <<>>
    /\ probeFailed = {}
    /\ sent = <<>>
    /\ lastEvent = Event("start", NoUri)
    /\ classified = [u \in Uris |-> "none"]
    /\ checked = [uri |-> NoUri, result |-> "off"]
    /\ resolved = Unresolved
    /\ InitMig({ l \in [Uris -> BOOLEAN] : \A u \in Uris \ MigrationUris : ~l[u] })

SpecMigration == InitMigration /\ [][NextMigration]_vars

\* the requests of the server and the command of the user together
NextCommand ==
    \/ NextMigration
    \/ \E c \in Commands, folders \in BOOLEAN : MigrateSettings(c, folders)
    \/ \E c \in Commands, folder \in MigrationUris \cup {NoUri} : FolderPicked(c, folder)
    \/ \E c \in Commands : CommandWriteLanded(c)
    \/ \E c \in Commands, ok \in BOOLEAN : CommandUpdateDone(c, ok)

SpecCommand == InitMigration /\ [][NextCommand]_vars

\* the batches of concurrent requests: up to MaxBatch items with a scope
ConcurrentItemLists ==
    SeqsUpTo({ i \in Items(MigrationUris) : ~i.section /\ i.scopeUri # NoUri }, MaxBatch)

\* concurrent readConfiguration calls, each for a batch of items with a scope
NextConcurrent ==
    \/ \E r \in Requests, items \in ConcurrentItemLists : ReadConfiguration(r, items, TRUE)
    \/ RunNext(TRUE)
    \/ \E r \in Requests, selected \in Selections : PromptAnswered(r, selected, TRUE)
    \/ \E r \in Requests, ok \in BOOLEAN : UpdateDone(r, ok, TRUE)
    \/ \E r \in Requests, ok \in BOOLEAN : GlobalUpdateDone(r, ok, TRUE)
    \/ \E r \in Requests : WriteLanded(r)
    \/ SettingsChangeDelivered

SpecConcurrent == InitMigration /\ [][NextConcurrent]_vars

\* the scheduling of the workflow: a thunk that can run is run (the semaphore
\* schedules it as soon as a slot is free), a prompt that is shown is answered
\* or dismissed, and a write of the settings that was started settles
FairConcurrent ==
    /\ WF_vars(RunNext(TRUE))
    /\ \A r \in Requests :
          /\ WF_vars(\E selected \in Selections : PromptAnswered(r, selected, TRUE))
          /\ WF_vars(\E ok \in BOOLEAN : UpdateDone(r, ok, TRUE))
          /\ WF_vars(\E ok \in BOOLEAN : GlobalUpdateDone(r, ok, TRUE))

SpecConcurrentFair == InitMigration /\ [][NextConcurrent]_vars /\ FairConcurrent

\* the configurations of the session in which settings are resolved while
\* documents come and go
ResolveConfigs ==
    { DefaultConfig,
      [DefaultConfig EXCEPT !.enable = FALSE],
      [DefaultConfig EXCEPT !.validate = [isArray |-> TRUE, items |-> <<ValidateEntrySeq[1]>>]] }

InitResolve ==
    /\ config \in ResolveConfigs
    /\ textDocuments = <<>>
    /\ notebookOpen = FALSE
    /\ syncedDocuments = <<>>
    /\ probeFailed = {}
    /\ sent = <<>>
    /\ lastEvent = Event("start", NoUri)
    /\ classified = [u \in Uris |-> "none"]
    /\ checked = [uri |-> NoUri, result |-> "off"]
    /\ resolved = Unresolved
    /\ InitMig({ l \in [Uris -> BOOLEAN] : \A u \in Uris \ {DocTable[1].uri} : ~l[u] })

\* one readConfiguration call at a time for a scoped item, while documents open
\* and close, the configuration changes and probes fail
NextResolve ==
    \/ \E u \in MigrationUris : EditorOpen(u)
    \/ \E u \in MigrationUris : EditorClose(u)
    \/ \E cfg \in ResolveConfigs : ConfigurationChanged(cfg)
    \/ \E sections \in SectionValues : DidChangeConfiguration(sections)
    \/ \E u \in MigrationUris : ProbeFailedRequest(u)
    \/ \E items \in MigrationItemLists, en \in BOOLEAN : ReadConfiguration(1, items, en)
    \/ \E en \in BOOLEAN : RunNext(en)
    \/ \E selected \in Selections, en \in BOOLEAN : PromptAnswered(1, selected, en)
    \/ \E ok \in BOOLEAN, en \in BOOLEAN : UpdateDone(1, ok, en)
    \/ \E ok \in BOOLEAN, en \in BOOLEAN : GlobalUpdateDone(1, ok, en)
    \/ WriteLanded(1)
    \/ SettingsChangeDelivered

SpecResolve == InitResolve /\ [][NextResolve]_vars

\* the batches in which items of every kind are mixed
BatchItemLists ==
    SeqsUpTo({ i \in Items(MigrationUris) : i.section => i.scopeUri # DocTable[2].uri }, MaxBatch)

InitBatch ==
    /\ config = DefaultConfig
    /\ textDocuments = <<>>
    /\ notebookOpen = FALSE
    /\ syncedDocuments = <<>>
    /\ probeFailed = {}
    /\ sent = <<>>
    /\ lastEvent = Event("start", NoUri)
    /\ classified = [u \in Uris |-> "none"]
    /\ checked = [uri |-> NoUri, result |-> "off"]
    /\ resolved = Unresolved
    /\ InitMig({ l \in [Uris -> BOOLEAN] : \A u \in Uris \ {DocTable[1].uri} : ~l[u] })

\* one readConfiguration call at a time for a batch of mixed items, while
\* documents open and close
NextBatch ==
    \/ \E u \in MigrationUris : EditorOpen(u)
    \/ \E u \in MigrationUris : EditorClose(u)
    \/ \E items \in BatchItemLists : ReadConfiguration(1, items, TRUE)
    \/ RunNext(TRUE)
    \/ \E selected \in Selections : PromptAnswered(1, selected, TRUE)
    \/ \E ok \in BOOLEAN : UpdateDone(1, ok, TRUE)
    \/ \E ok \in BOOLEAN : GlobalUpdateDone(1, ok, TRUE)
    \/ WriteLanded(1)
    \/ SettingsChangeDelivered

SpecBatch == InitBatch /\ [][NextBatch]_vars

\* the session of documents: editor events, configuration changes, requests of
\* the server
Next ==
    \/ \E u \in Uris : EditorOpen(u)
    \/ \E u \in Uris : EditorClose(u)
    \/ \E cfg \in Configs : ConfigurationChanged(cfg)
    \/ \E sections \in SectionValues : DidChangeConfiguration(sections)
    \/ \E u \in Uris : ProbeFailedRequest(u)
    \/ DidChangeWatchedFile
    \/ \E cells \in SUBSET CellUris : NotebookDidOpen(cells)
    \/ \E added \in SUBSET CellUris, removed \in SUBSET CellUris : NotebookDidChange(added, removed)
    \/ NotebookDidClose

Spec == Init /\ [][Next]_vars

----------------------------------------------------------------------------
(* Validator.check on its own *)

\* validator.check(document) is called and its answer observed
CheckDocument(u) ==
    /\ checked' = [uri |-> u, result |-> Classify(u)]
    /\ UNCHANGED <<syncVars, migVars, resolved>>

InitCheck ==
    /\ config \in CheckConfigs
    /\ textDocuments = <<>>
    /\ notebookOpen = FALSE
    /\ syncedDocuments = <<>>
    /\ probeFailed \in SUBSET Uris
    /\ sent = <<>>
    /\ lastEvent = Event("start", NoUri)
    /\ classified = [u \in Uris |-> "none"]
    /\ checked = [uri |-> NoUri, result |-> "off"]
    /\ resolved = Unresolved
    /\ InitMig({[u \in Uris |-> FALSE]})

NextCheck == \E u \in Uris : CheckDocument(u)

SpecCheck == InitCheck /\ [][NextCheck]_vars

----------------------------------------------------------------------------
(* Working directories, client.ts:645-717 *)

\* paths and patterns are sequences of characters
Sep == "/"
Path_ws      == << "/", "w" >>
Path_ws_     == << "/", "w", "/" >>
Path_ws_b    == << "/", "w", "/", "b" >>
Path_ws_b_   == << "/", "w", "/", "b", "/" >>
Path_b       == << "b" >>
Path_x_      == << "/", "x", "/" >>
Pattern_any  == << "/", "w", "/", "*", "/" >>
Pattern_rel  == << "*" >>
Pattern_x    == << "/", "x", "/", "*" >>
File_c       == << "/", "w", "/", "b", "/", "c", ".", "j", "s" >>
File_d       == << "/", "w", "/", "d", ".", "j", "s" >>
NoPath == << "none" >>

\* an entry of eslint.workingDirectories: a string, a LegacyDirectoryItem, a
\* DirectoryItem, a PatternItem, a ModeItem, or a value that is none of them;
\* cwd is the property '!cwd': "undefined", "true" or "false"
StringEntry(d)      == [kind |-> "string", directory |-> d]
LegacyEntry(d, c)   == [kind |-> "legacy", directory |-> d, changeProcessCWD |-> c]
DirectoryEntry(d, c) == [kind |-> "directory", directory |-> d, cwd |-> c]
PatternEntry(q, c)  == [kind |-> "pattern", pattern |-> q, cwd |-> c]
ModeEntry(m)        == [kind |-> "mode", mode |-> m]
OtherEntry          == [kind |-> "other"]

WorkingDirectoryEntries ==
    { StringEntry(Path_ws_), StringEntry(Path_ws_b), StringEntry(Path_b), StringEntry(Path_x_),
      LegacyEntry(Path_ws, FALSE), LegacyEntry(Path_ws_b_, TRUE),
      DirectoryEntry(Path_ws_b_, "true"), DirectoryEntry(Path_ws_, "undefined"),
      PatternEntry(Pattern_any, "undefined"), PatternEntry(Pattern_rel, "true"),
      PatternEntry(Pattern_x, "false"), PatternEntry(<<>>, "false"),
      ModeEntry("auto"), ModeEntry("location"), OtherEntry }

\* String.prototype.startsWith
StartsWith(f, d) == Len(d) <= Len(f) /\ SubSeq(f, 1, Len(d)) = d

\* path.isAbsolute / path.posix.isAbsolute
IsAbsolute(q) == Len(q) > 0 /\ q[1] = Sep

\* path.join / path.posix.join of a folder path and a relative path without
\* '.', '..' or doubled separators
Join(folder, q) == IF q = <<>> THEN folder ELSE folder \o <<Sep>> \o q

\* toOSPath and toPosixPath (node-utils) on a POSIX host
toOSPath(q) == q
toPosixPath(q) == q

\* client.ts:682-684 and 692-694: the separator is appended if it is missing
WithSep(q) == IF q # <<>> /\ q[Len(q)] = Sep THEN q ELSE q \o <<Sep>>

\* convert2RegExp(pattern).exec(filePath) (node-utils): the pattern is matched
\* from the start of the path, '*' stands for the characters up to the next
\* separator; the answer is the length of the match, 0 if there is none
RECURSIVE RegExpExec(_, _, _, _)
RegExpExec(pattern, i, f, j) ==
    IF i > Len(pattern) THEN j - 1
    ELSE IF pattern[i] = "*"
         THEN LET stops == { k \in j..Len(f) : f[k] = Sep }
                  k == IF stops = {} THEN Len(f) + 1
                       ELSE CHOOSE m \in stops : \A n \in stops : m <= n
              IN  RegExpExec(pattern, i + 1, f, k)
         ELSE IF j <= Len(f) /\ f[j] = pattern[i]
              THEN RegExpExec(pattern, i + 1, f, j + 1)
              ELSE 0

\* client.ts:652-667: noCWD of the entry
NoCWD(entry) ==
    IF entry.kind = "legacy" THEN ~entry.changeProcessCWD
    ELSE IF entry.kind \in {"directory", "pattern"} /\ entry.cwd # "undefined"
    THEN entry.cwd = "true"
    ELSE FALSE

\* client.ts:673-704: itemValue of the entry, NoPath if it stays undefined
ItemValue(entry, filePath, workspaceFolderPath) ==
    IF filePath = NoPath THEN NoPath
    ELSE IF entry.kind \in {"string", "legacy", "directory"}
    THEN LET d0 == toOSPath(entry.directory)
             d1 == IF ~IsAbsolute(d0) /\ workspaceFolderPath # NoPath
                   THEN Join(workspaceFolderPath, d0) ELSE d0
             directory == WithSep(d1)
         IN  IF StartsWith(filePath, directory) THEN directory ELSE NoPath
    ELSE IF entry.kind = "pattern" /\ Len(entry.pattern) > 0
    THEN LET q1 == IF ~IsAbsolute(entry.pattern) /\ workspaceFolderPath # NoPath
                   THEN Join(toPosixPath(workspaceFolderPath), entry.pattern)
                   ELSE entry.pattern
             pattern == WithSep(q1)
             n == RegExpExec(pattern, 1, filePath, 1)
         IN  IF n > 0 THEN SubSeq(filePath, 1, n) ELSE NoPath
    ELSE NoPath

Undefined == [kind |-> "undefined"]
IsModeItem(wd) == wd.kind = "mode"

\* a plausible slip: a match of the same length replaces the running best
ReplacesOnEqual(best, itemValue) == Len(best) <= Len(itemValue)

\* client.ts:709: whether the match replaces the running best
Replaces(best, itemValue) == Len(best) < Len(itemValue)

\* client.ts:668-670: workingDirectory after a ModeItem
ModeAssigned(wd, entry) == entry

\* client.ts:649-715: the loop over workingDirectories from entry i on
RECURSIVE WorkingDirectoryLoop(_, _, _, _, _)
WorkingDirectoryLoop(entries, i, wd, filePath, workspaceFolderPath) ==
    IF i > Len(entries) THEN wd
    ELSE LET entry == entries[i]
         IN  IF entry.kind = "mode"
             THEN WorkingDirectoryLoop(entries, i + 1, ModeAssigned(wd, entry),
                                       filePath, workspaceFolderPath)
             ELSE LET itemValue == ItemValue(entry, filePath, workspaceFolderPath)
                      new == [kind |-> "directory", directory |-> itemValue,
                              cwd |-> NoCWD(entry)]
                      wd1 == IF itemValue = NoPath THEN wd
                             ELSE IF wd = Undefined \/ IsModeItem(wd) THEN new
                             ELSE IF Replaces(wd.directory, itemValue) THEN new
                             ELSE wd
                  IN  WorkingDirectoryLoop(entries, i + 1, wd1, filePath, workspaceFolderPath)

\* client.ts:645-717: settings.workingDirectory for a synced document
ResolveWorkingDirectory(input) ==
    IF input.isArray
    THEN WorkingDirectoryLoop(input.entries, 1, Undefined, input.filePath,
                              input.workspaceFolderPath)
    ELSE Undefined

\* the inputs: the setting, document.uri.fsPath (NoPath if the scheme is not
\* file) and workspaceFolder.uri.fsPath (NoPath without a file folder)
WorkingDirectoryInputs ==
    [isArray : {TRUE}, entries : SeqsUpTo(WorkingDirectoryEntries, MaxRules),
     filePath : {File_c, File_d, NoPath}, workspaceFolderPath : {Path_ws, NoPath}]
    \cup [isArray : {FALSE}, entries : {<<>>}, filePath : {File_c},
          workspaceFolderPath : {Path_ws}]

\* the working directory of one input is resolved
WorkingDirectoryResolved ==
    /\ ~resolved.done
    /\ resolved' = [resolved EXCEPT !.done = TRUE,
                                    !.output = ResolveWorkingDirectory(resolved.input)]
    /\ UNCHANGED <<syncVars, migVars, checked>>

InitWorkingDirectory ==
    /\ config = DefaultConfig
    /\ textDocuments = <<>>
    /\ notebookOpen = FALSE
    /\ syncedDocuments = <<>>
    /\ probeFailed = {}
    /\ sent = <<>>
    /\ lastEvent = Event("start", NoUri)
    /\ classified = [u \in Uris |-> "none"]
    /\ checked = [uri |-> NoUri, result |-> "off"]
    /\ resolved \in { [input |-> i, done |-> FALSE, output |-> "none"] : i \in WorkingDirectoryInputs }
    /\ InitMig({[u \in Uris |-> FALSE]})

NextWorkingDirectory == WorkingDirectoryResolved

SpecWorkingDirectory == InitWorkingDirectory /\ [][NextWorkingDirectory]_vars

----------------------------------------------------------------------------
(* Rule customizations, client.ts:723-749 *)

\* an entry of a customizations array: shape is what the value is ("object",
\* "null", "number"); rule and severity are a string value, "number" for a
\* value that is not a string, or "missing"
RawEntries ==
    { [shape |-> "object", rule |-> "no-var", severity |-> "warn"],
      [shape |-> "object", rule |-> "semi",   severity |-> "off"],
      [shape |-> "object", rule |-> "semi",   severity |-> "missing"],
      [shape |-> "object", rule |-> "number", severity |-> "warn"],
      [shape |-> "number", rule |-> "missing", severity |-> "missing"],
      [shape |-> "null",   rule |-> "missing", severity |-> "missing"] }

\* typeof value === 'string' for a property of an entry
TypeofString(value) == value \notin {"number", "missing"}

\* a value of a customizations setting: undefined, null, an object that is no
\* array, or an array
RawConfigs ==
    { [kind |-> k, items |-> <<>>] : k \in {"undefined", "null", "object"} }
    \cup { [kind |-> "array", items |-> a] : a \in SeqsUpTo(RawEntries, MaxCustomizations) }

Thrown == [thrown |-> TRUE, value |-> <<>>]
Returned(v) == [thrown |-> FALSE, value |-> v]

\* client.ts:728-737: map and filter from entry i on; reading a property of
\* null throws a TypeError
RECURSIVE MapFilter(_, _, _)
MapFilter(rawConfig, i, acc) ==
    IF i > Len(rawConfig) THEN Returned(acc)
    ELSE LET rawValue == rawConfig[i]
         IN  IF rawValue.shape = "null" THEN Thrown
             ELSE IF TypeofString(rawValue.severity) /\ TypeofString(rawValue.rule)
                  THEN MapFilter(rawConfig, i + 1,
                                 Append(acc, [severity |-> rawValue.severity,
                                              rule |-> rawValue.rule]))
                  ELSE MapFilter(rawConfig, i + 1, acc)

\* client.ts:723-738
parseRulesCustomizations(rawConfig) ==
    IF rawConfig.kind # "array" THEN Returned(<<>>)
    ELSE MapFilter(rawConfig.items, 1, <<>>)

\* client.ts:740-749
getRuleCustomizations(input) ==
    LET c1 == IF input.scheme = "vscode-notebook-cell" THEN input.notebooks
              ELSE [kind |-> "undefined", items |-> <<>>]
        customizations == IF c1.kind \in {"undefined", "null"} THEN input.rules ELSE c1
    IN  parseRulesCustomizations(customizations)

\* the inputs: uri.scheme and the two settings notebooks.rules.customizations
\* and rules.customizations
CustomizationInputs ==
    [scheme : {"file", "vscode-notebook-cell"}, notebooks : RawConfigs, rules : RawConfigs]

\* the customizations of one input are read, client.ts:616
CustomizationsRead ==
    /\ ~resolved.done
    /\ resolved' = [resolved EXCEPT !.done = TRUE,
                                    !.output = getRuleCustomizations(resolved.input)]
    /\ UNCHANGED <<syncVars, migVars, checked>>

InitCustomizations ==
    /\ config = DefaultConfig
    /\ textDocuments = <<>>
    /\ notebookOpen = FALSE
    /\ syncedDocuments = <<>>
    /\ probeFailed = {}
    /\ sent = <<>>
    /\ lastEvent = Event("start", NoUri)
    /\ classified = [u \in Uris |-> "none"]
    /\ checked = [uri |-> NoUri, result |-> "off"]
    /\ resolved \in { [input |-> i, done |-> FALSE, output |-> "none"] : i \in CustomizationInputs }
    /\ InitMig({[u \in Uris |-> FALSE]})

NextCustomizations == CustomizationsRead

SpecCustomizations == InitCustomizations /\ [][NextCustomizations]_vars

----------------------------------------------------------------------------
(* The settings object, client.ts:604-718 *)

\* a plausible slip: format.enable is copied whatever validate is
FormatAlways(validate, formatEnable) == formatEnable

\* client.ts:612 and 634-635: settings.format
Format(validate, formatEnable) == IF validate # "off" THEN formatEnable ELSE FALSE

\* client.ts:609-611 and 634-637: settings.codeActionOnSave; rules is
\* "undefined", or the allow-list that is configured
CodeActionOnSave(validate, mode, rules) ==
    IF validate # "off"
    THEN [mode |-> mode, rules |-> IF rules = "null" THEN "undefined" ELSE rules]
    ELSE [mode |-> "all", rules |-> "undefined"]

\* client.ts:604-718: the settings of an item whose scope is `document`
\* (input.synced: syncedDocuments has it); input.classification is what
\* validator.check(document) answers
ResolveSettings(input) ==
    LET validate == IF input.synced /\ input.enabled THEN input.classification ELSE "off"
    IN  IF ~input.synced
        THEN [validate |-> "off", format |-> FALSE,
              codeActionOnSave |-> [mode |-> "all", rules |-> "undefined"],
              workingDirectory |-> Undefined]
        ELSE [validate |-> validate,
              format |-> Format(validate, input.formatEnable),
              codeActionOnSave |-> CodeActionOnSave(validate, input.mode, input.rules),
              workingDirectory |-> ResolveWorkingDirectory(input.workingDirectories)]

\* the inputs: whether the document is synced, the key 'enabled', the answer of
\* Validator.check, format.enable, codeActionsOnSave.mode and .rules, and the
\* working directories of a file in the workspace folder
SettingsInputs ==
    [synced : BOOLEAN, enabled : BOOLEAN, classification : {"off", "on", "probe"},
     formatEnable : BOOLEAN, mode : {"all", "problems"}, rules : {"null", "no-var"},
     workingDirectories :
        { w \in WorkingDirectoryInputs :
            /\ Len(w.entries) <= MaxSettingsRules
            /\ w.filePath = File_c
            /\ w.workspaceFolderPath = Path_ws }]

\* the settings of one input are built
SettingsResolved ==
    /\ ~resolved.done
    /\ resolved' = [resolved EXCEPT !.done = TRUE, !.output = ResolveSettings(resolved.input)]
    /\ UNCHANGED <<syncVars, migVars, checked>>

InitSettings ==
    /\ config = DefaultConfig
    /\ textDocuments = <<>>
    /\ notebookOpen = FALSE
    /\ syncedDocuments = <<>>
    /\ probeFailed = {}
    /\ sent = <<>>
    /\ lastEvent = Event("start", NoUri)
    /\ classified = [u \in Uris |-> "none"]
    /\ checked = [uri |-> NoUri, result |-> "off"]
    /\ resolved \in { [input |-> i, done |-> FALSE, output |-> "none"] : i \in SettingsInputs }
    /\ InitMig({[u \in Uris |-> FALSE]})

NextSettings == SettingsResolved

SpecSettings == InitSettings /\ [][NextSettings]_vars

----------------------------------------------------------------------------
(* The traffic of an open document, client.ts:426-447 and 484-505.  A        *)
(* handler gives `sent`, what it passed to next(...), and `answer`, what it   *)
(* returned where it had no next(...) to return: "[]" for the empty list,     *)
(* "undefined" for nothing.                                                    *)

MaxDiagnostics == 2

Passed(method, u) == [sent |-> <<Notification(method, u)>>, answer |-> "next"]
NotPassed(answer) == [sent |-> <<>>, answer |-> answer]

\* middleware.didChange, client.ts:426-430
didChange(synced, u) ==
    IF Has(synced, u) THEN Passed("didChange", u) ELSE NotPassed("undefined")

\* middleware.willSave, client.ts:431-435
willSave(synced, u) ==
    IF Has(synced, u) THEN Passed("willSave", u) ELSE NotPassed("undefined")

\* middleware.willSaveWaitUntil, client.ts:436-442
willSaveWaitUntil(synced, u) ==
    IF Has(synced, u) THEN Passed("willSaveWaitUntil", u) ELSE NotPassed("[]")

\* a plausible slip: the save is forwarded for every document
didSaveNoFilter(synced, u) == Passed("didSave", u)

\* middleware.didSave, client.ts:443-447
didSave(synced, u) ==
    IF Has(synced, u) THEN Passed("didSave", u) ELSE NotPassed("undefined")

\* supportedQuickFixKinds, client.ts:115
supportedQuickFixKinds == {"source", "source.fixAll", "source.fixAll.eslint", "quickfix"}

\* CodeActionContext: context.only (its value, or "undefined") and the sources
\* of context.diagnostics
OnlyKinds == {"undefined", "quickfix", "source.fixAll.eslint", "refactor"}
DiagnosticSources == {"eslint", "ts"}
CodeActionContexts ==
    [only : OnlyKinds, diagnostics : SeqsUpTo(DiagnosticSources, MaxDiagnostics)]

IsEslint(source) == source = "eslint"

\* middleware.provideCodeActions, client.ts:484-505
provideCodeActions(synced, u, context) ==
    IF ~Has(synced, u) THEN NotPassed("[]")
    ELSE IF context.only # "undefined" /\ context.only \notin supportedQuickFixKinds
    THEN NotPassed("[]")
    ELSE IF context.only = "undefined" /\ Len(context.diagnostics) = 0
    THEN NotPassed("[]")
    ELSE LET eslintDiagnostics == SelectSeq(context.diagnostics, IsEslint)
         IN  IF context.only = "undefined" /\ Len(eslintDiagnostics) = 0
             THEN NotPassed("[]")
             ELSE Passed("codeAction", u)

\* the methods of the traffic of a document
TrafficMethods == {"didChange", "willSave", "willSaveWaitUntil", "didSave", "codeAction"}

\* the editor reports a change, a save or asks for code actions for a text
\* document it has open; `handled` is what the middleware of the method made
\* of it. The answer is kept in `resolved`.
Traffic(method, u, handled) ==
    /\ u \in TextUris \cap Range(textDocuments)
    /\ sent' = handled.sent
    /\ resolved' = [input |-> u, done |-> TRUE, output |-> handled.answer]
    /\ lastEvent' = Event(method, u)
    /\ UNCHANGED <<docVars, classified, checked, migVars>>

DidChange(u) == Traffic("didChange", u, didChange(syncedDocuments, u))
WillSave(u) == Traffic("willSave", u, willSave(syncedDocuments, u))
WillSaveWaitUntil(u) == Traffic("willSaveWaitUntil", u, willSaveWaitUntil(syncedDocuments, u))
DidSave(u) == Traffic("didSave", u, didSave(syncedDocuments, u))
ProvideCodeActions(u, context) ==
    Traffic("codeAction", u, provideCodeActions(syncedDocuments, u, context))

\* the session of a document with its traffic: it is opened and closed, the
\* configuration changes, its probe fails, and in between it is changed,
\* saved and asked about
NextTraffic ==
    \/ \E u \in Uris : EditorOpen(u)
    \/ \E u \in Uris : EditorClose(u)
    \/ \E cfg \in ResolveConfigs : ConfigurationChanged(cfg)
    \/ \E u \in Uris : ProbeFailedRequest(u)
    \/ \E u \in Uris : DidChange(u)
    \/ \E u \in Uris : WillSave(u)
    \/ \E u \in Uris : WillSaveWaitUntil(u)
    \/ \E u \in Uris : DidSave(u)
    \/ \E u \in Uris, context \in CodeActionContexts : ProvideCodeActions(u, context)

InitTraffic ==
    /\ config \in ResolveConfigs
    /\ textDocuments = <<>>
    /\ notebookOpen = FALSE
    /\ syncedDocuments = <<>>
    /\ probeFailed = {}
    /\ sent = <<>>
    /\ lastEvent = Event("start", NoUri)
    /\ classified = [u \in Uris |-> "none"]
    /\ checked = [uri |-> NoUri, result |-> "off"]
    /\ resolved = Unresolved
    /\ InitMig({[u \in Uris |-> FALSE]})

SpecTraffic == InitTraffic /\ [][NextTraffic]_vars

----------------------------------------------------------------------------
(* Claims *)

\* the URIs syncedDocuments has, and the URIs of the documents open in the editor
Synced == Range(syncedDocuments)
Opened == Range(textDocuments)

\* whether the list setting l has an entry that names languageId
InValidate(l, languageId) ==
    /\ l.isArray
    /\ \E i \in 1..Len(l.items) :
          /\ l.items[i].kind \in {"string", "item"}
          /\ l.items[i].language = languageId
InProbe(l, languageId) ==
    l.isArray /\ \E i \in 1..Len(l.items) : l.items[i] = languageId

\* the ordered rule list of the specification, first match wins
FirstMatch(enable, inValidate, failed, inProbe) ==
    CASE ~enable    -> "off"
      [] inValidate -> "on"
      [] failed     -> "off"
      [] inProbe    -> "probe"
      [] OTHER      -> "off"

\* C1: Validator.check answers the first match of: enable false -> off; language
\* in the validate list (string or {language}) -> on; URI in probeFailed -> off;
\* language in the probe list -> probe; otherwise off.  The answer is a function
\* of these five inputs, and the call leaves every variable of the client as it
\* was (CheckDocument changes nothing but the observation).
C1_CheckIsFirstMatch ==
    checked.uri # NoUri =>
        checked.result = FirstMatch(config.enable,
                                    InValidate(config.validate, Document(checked.uri).languageId),
                                    checked.uri \in probeFailed,
                                    InProbe(config.probe, Document(checked.uri).languageId))

\* a document whose language is in the probe list and in the validate list, and
\* whose probe failed, is answered "on": the second rule won over the third
C1_Witness ==
    /\ checked.uri # NoUri
    /\ checked.result = "on"
    /\ checked.uri \in probeFailed
    /\ InProbe(config.probe, Document(checked.uri).languageId)
    /\ Len(config.validate.items) = 2
    /\ config.validate.items[1].kind = "other"

\* the events in which the handler of Workspace.onDidChangeConfiguration runs
ConfigurationChangeEvents == {"didChangeConfiguration"}

\* C2 as claimed: once a ProbeFailed request has added a URI to probeFailed,
\* Validator.check answers off for it in every later state, until a
\* configuration change clears probeFailed.  Step by step: a URI that is in
\* probeFailed, or that this step's ProbeFailed request adds, is answered off
\* after every step that is not a configuration change.
C2_Original ==
    [][\A u \in Uris :
          ( /\ u \in probeFailed \/ lastEvent' = Event("probeFailed", u)
            /\ lastEvent'.type \notin ConfigurationChangeEvents )
          => Classify(u)' = "off"]_vars

\* C2 as amended: such a URI is answered off, unless the configuration is
\* enabled and its language is in the validate list (answered on), after every
\* step that is neither a configuration change nor a watched-file change, the
\* two events that clear probeFailed.
C2_ProbeFailureOverride ==
    [][\A u \in Uris :
          ( /\ u \in probeFailed \/ lastEvent' = Event("probeFailed", u)
            /\ lastEvent'.type \notin ConfigurationChangeEvents \cup {"didChangeWatchedFile"} )
          => \/ Classify(u)' = "off"
             \/ /\ Classify(u)' = "on"
                /\ config'.enable
                /\ InValidate(config'.validate, Document(u).languageId)]_vars

\* a document whose probe failed is opened again later: its language is in the
\* probe list and yet it is not synced
C2_Witness ==
    /\ lastEvent.type = "didOpen"
    /\ lastEvent.uri \in probeFailed
    /\ config.enable
    /\ InProbe(config.probe, Document(lastEvent.uri).languageId)
    /\ Classify(lastEvent.uri) = "off"
    /\ lastEvent.uri \notin Synced
    /\ sent = <<>>

\* C3: the editor opens a document: it enters syncedDocuments and one open is
\* forwarded exactly if it classifies on or probe or matches the package.json or
\* the ESLint configuration file filter; otherwise nothing is forwarded and
\* syncedDocuments is unchanged.  The cells of a notebook that opens are taken
\* by the same test.
C3_Open ==
    [][ /\ lastEvent'.type = "didOpen" =>
             IF Classify(lastEvent'.uri) # "off" \/ AlwaysSync(lastEvent'.uri)
             THEN /\ Synced' = Synced \cup {lastEvent'.uri}
                  /\ sent' = <<Notification("didOpen", lastEvent'.uri)>>
             ELSE /\ Synced' = Synced
                  /\ sent' = <<>>
        /\ lastEvent'.type = "notebookDidOpen" =>
             LET kept == { c \in Opened' \ Opened :
                             Classify(c) # "off" \/ AlwaysSync(c) }
             IN  /\ Synced' = Synced \cup kept
                 /\ sent' = IF kept = {} THEN <<>>
                            ELSE <<Notification("notebookDidOpen", NoUri)>>
      ]_vars

\* package.json is opened while it classifies off: it is synced all the same
C3_Witness ==
    /\ lastEvent.type = "didOpen"
    /\ AlwaysSync(lastEvent.uri)
    /\ Classify(lastEvent.uri) = "off"
    /\ lastEvent.uri \in Synced
    /\ sent = <<Notification("didOpen", lastEvent.uri)>>

\* C4: a text document closes: if its URI is in syncedDocuments it is removed
\* and exactly one close is forwarded; if not, nothing is forwarded and
\* syncedDocuments is unchanged.
C4_Close ==
    [][lastEvent'.type = "didClose" =>
          IF lastEvent'.uri \in Synced
          THEN /\ Synced' = Synced \ {lastEvent'.uri}
               /\ sent' = <<Notification("didClose", lastEvent'.uri)>>
          ELSE /\ Synced' = Synced
               /\ sent' = <<>>]_vars

\* a synced document was closed while another document stays synced
C4_Witness ==
    /\ lastEvent.type = "didClose"
    /\ sent = <<Notification("didClose", lastEvent.uri)>>
    /\ lastEvent.uri \notin Synced
    /\ Synced # {}

\* whether the notifications ns hold exactly one of method for u
SentOnce(ns, method, u) ==
    Cardinality({ i \in 1..Len(ns) : ns[i] = Notification(method, u) }) = 1

\* C5 as claimed: a configuration change clears probeFailed and, when its pass
\* ends, every document that was synced and now classifies off has been closed
\* and removed, and every open document that was not synced and now classifies
\* on or probe has been opened and added.
C5_Reconcile ==
    [][lastEvent'.type = "didChangeConfiguration" =>
          /\ probeFailed' = {}
          /\ \A u \in Synced :
                Classify(u)' = "off" =>
                    u \notin Synced' /\ SentOnce(sent', "didClose", u)
          /\ \A u \in Opened \ Synced :
                Classify(u)' # "off" =>
                    u \in Synced' /\ SentOnce(sent', "didOpen", u)]_vars

\* C6 as claimed: a ProbeFailed request for u adds u to probeFailed and closes
\* the document u if it is synced (one close forwarded); every other document
\* keeps its state and no pass over the documents is run.
C6_ProbeFailed ==
    [][lastEvent'.type = "probeFailed" =>
          /\ probeFailed' = probeFailed \cup {lastEvent'.uri}
          /\ IF lastEvent'.uri \in Synced
             THEN /\ Synced' = Synced \ {lastEvent'.uri}
                  /\ sent' = <<Notification("didClose", lastEvent'.uri)>>
             ELSE /\ Synced' = Synced
                  /\ sent' = <<>>]_vars

\* C7 as claimed: a URI is in syncedDocuments if and only if the most recent
\* answer of validator.check for its document was on or probe and the document
\* was not closed or evicted by a failed probe since then.
C7_Original ==
    \A u \in Uris : u \in Synced <=> classified[u] \in {"on", "probe"}

\* C8: the pass of a configuration change, run again at once under the same
\* configuration, leaves syncedDocuments as it is and forwards nothing.
C8_Idempotent ==
    lastEvent.type = "didChangeConfiguration" =>
        Reconcile(syncedDocuments, textDocuments, config)
            = [synced |-> syncedDocuments, sent |-> <<>>]

\* a pass that closed one document and opened another has just ended
C8_Witness ==
    /\ lastEvent.type = "didChangeConfiguration"
    /\ \E i \in 1..Len(sent) : sent[i].method = "didClose"
    /\ \E i \in 1..Len(sent) : sent[i].method = "didOpen"
    /\ Synced # {}

\* the requests inside the thunk given to migrationSemaphore.lock
InCriticalSection == { r \in Requests : requests[r].pc \in {"prompt", "update", "globalUpdate"} }
Prompting == { r \in Requests : requests[r].pc = "prompt" }

\* C9: at most one migration prompt is pending at any time, and at most one
\* request is inside the critical section: the migration check of a later
\* request starts only when the earlier one has released the semaphore.
C9_Serialized ==
    /\ Cardinality(Prompting) <= 1
    /\ Cardinality(InCriticalSection) <= 1
    /\ active = Cardinality(InCriticalSection)
    /\ \A r \in InCriticalSection : \A i \in 1..Len(waiting) : waiting[i] # r

\* one request shows its prompt while another, for another resource that needs
\* the update too, waits for the semaphore
C9_Witness ==
    \E r1 \in Requests, r2 \in Requests :
        /\ requests[r1].pc = "prompt"
        /\ requests[r2].pc = "waiting"
        /\ requests[r2].items[requests[r2].idx].scopeUri # migration
        /\ needsUpdate(requests[r2].items[requests[r2].idx].scopeUri)

\* C10: the answers 'Not now' and 'Open Readme' set notNow; notNow is never
\* reset; and while it is set no request shows a migration prompt.
C10_Deferred ==
    [][ /\ lastEvent'.type \in {"no", "readme"} /\ lastEvent' # lastEvent => notNow'
        /\ notNow => notNow'
        /\ notNow' => Prompting' = {} ]_vars

\* after the deferral a later request went through the critical section for a
\* resource that still needs the update, and no prompt was shown
C10_Witness ==
    /\ notNow
    /\ lastEvent.type = "runThunk"
    /\ globalMigration = "on"
    /\ needsUpdate(lastEvent.uri)
    /\ Prompting = {}

\* whether readConfiguration answers null for the item, client.ts:547
IsNullItem(item) == item.section \/ item.scopeUri = NoUri

\* the results of q up to n answer its first n items, null for null
AnswersItems(q, n) ==
    /\ Len(q.result) = n
    /\ \A i \in 1..n : q.result[i].null <=> IsNullItem(q.items[i])

\* C11: readConfiguration returns one result per item, in the order of the
\* items: a call that returned has as many results as items, result[i] is null
\* exactly if items[i] carries a section or lacks a scopeUri; while the call is
\* in progress the results answer the items before the current one, and a
\* result once pushed is never changed or moved.
C11_OneResultPerItem ==
    /\ [](\A r \in Requests :
            LET q == requests[r]
            IN  /\ q.pc = "done" => AnswersItems(q, Len(q.items))
                /\ q.pc \in {"waiting", "prompt", "update", "globalUpdate", "failed"}
                      => AnswersItems(q, q.idx - 1) /\ ~IsNullItem(q.items[q.idx]))
    /\ [][\A r \in Requests :
            (requests[r].pc \notin {"idle", "done", "failed"})
               => /\ requests'[r].items = requests[r].items
                  /\ Len(requests'[r].result) >= Len(requests[r].result)
                  /\ SubSeq(requests'[r].result, 1, Len(requests[r].result)) = requests[r].result]_vars

\* a call with two items returned: null for the item with a section, settings
\* that validate for the scoped one, in that order
C11_Witness ==
    \E r \in Requests :
        LET q == requests[r]
        IN  /\ q.pc = "done"
            /\ Len(q.items) = 2
            /\ IsNullItem(q.items[1]) /\ ~IsNullItem(q.items[2])
            /\ q.result[1] = NullResult
            /\ q.result[2].validate # "off"

\* the requests that are between the call of migrationSemaphore.lock for an
\* item and the push of its settings
InItem == { r \in Requests : requests[r].pc \in {"waiting", "prompt", "update", "globalUpdate"} }

\* the step pushes the settings of the current item of request r
PushesSettings(r) ==
    /\ r \in InItem
    /\ Len(requests'[r].result) > Len(requests[r].result)

\* C12 as claimed: the settings an item gets have validate = off unless, when
\* they are built (after the lock of that item was released), the scope URI is
\* in syncedDocuments and the enable flag of the resource is true; then
\* validate is what Validator.check answers for the document.
C12_Validate ==
    [][\A r \in Requests :
          PushesSettings(r) =>
              LET u == requests[r].items[requests[r].idx].scopeUri
                  v == requests'[r].result[requests[r].idx]
              IN  /\ ~v.null
                  /\ v.validate = IF u \in Synced' /\ config'.enable
                                  THEN check(config', probeFailed', u, Document(u).languageId)
                                  ELSE "off"]_vars

\* the rules of the input that match the file, by position
MatchingRules(input) ==
    { i \in 1..Len(input.entries) :
        /\ input.entries[i].kind # "mode"
        /\ ItemValue(input.entries[i], input.filePath, input.workspaceFolderPath) # NoPath }

MatchValue(input, i) == ItemValue(input.entries[i], input.filePath, input.workspaceFolderPath)

\* the first declared rule among those with the longest match value
LongestMatch(input) ==
    LET k == CHOOSE i \in MatchingRules(input) :
                 \A j \in MatchingRules(input) :
                     \/ Len(MatchValue(input, j)) < Len(MatchValue(input, i))
                     \/ Len(MatchValue(input, j)) = Len(MatchValue(input, i)) /\ i <= j
    IN  [kind |-> "directory", directory |-> MatchValue(input, k),
         cwd |-> NoCWD(input.entries[k])]

HasModeRule(input) == \E i \in 1..Len(input.entries) : input.entries[i].kind = "mode"

\* C13: over a sequence of directory and pattern rules (no mode rule), the
\* resolved working directory is the longest match value among the rules that
\* match, with the noCWD flag of its rule; among matches of the same length the
\* first declared rule is kept; without a match nothing is resolved.
C13_LongestMatch ==
    (resolved.done /\ resolved.input.isArray /\ ~HasModeRule(resolved.input)) =>
        resolved.output = IF MatchingRules(resolved.input) = {} THEN Undefined
                          ELSE LongestMatch(resolved.input)

\* a shorter match was replaced by a longer one, and a later rule that matches
\* with the same length and another noCWD flag did not replace it
C13_Witness ==
    /\ resolved.done /\ resolved.input.isArray /\ ~HasModeRule(resolved.input)
    /\ \E i, j, k \in MatchingRules(resolved.input) :
          /\ i < j /\ j < k
          /\ Len(MatchValue(resolved.input, i)) < Len(MatchValue(resolved.input, j))
          /\ Len(MatchValue(resolved.input, j)) = Len(MatchValue(resolved.input, k))
          /\ NoCWD(resolved.input.entries[j]) # NoCWD(resolved.input.entries[k])
          /\ resolved.output = [kind |-> "directory",
                                directory |-> MatchValue(resolved.input, j),
                                cwd |-> NoCWD(resolved.input.entries[j])]

\* C18 as claimed: whatever the place of the mode rules in the list, the
\* resolved working directory is a mode rule only if no directory or pattern
\* rule matched the file; if one matched, the result is the longest match.
C18_ModeNeverDisplaces ==
    (resolved.done /\ resolved.input.isArray) =>
        /\ IsModeItem(resolved.output) => MatchingRules(resolved.input) = {}
        /\ MatchingRules(resolved.input) # {} => resolved.output = LongestMatch(resolved.input)

\* the array the input selects: the notebook key for a cell unless it is
\* undefined or null, the general key otherwise
SelectedCustomizations(input) ==
    IF input.scheme = "vscode-notebook-cell" /\ input.notebooks.kind \notin {"undefined", "null"}
    THEN input.notebooks ELSE input.rules

WellFormed(e) == e.shape = "object" /\ TypeofString(e.rule) /\ TypeofString(e.severity)

\* the well-formed entries of a, in their order
RECURSIVE WellFormedOf(_)
WellFormedOf(a) ==
    IF a = <<>> THEN <<>>
    ELSE IF WellFormed(Head(a))
         THEN <<[severity |-> Head(a).severity, rule |-> Head(a).rule]>> \o WellFormedOf(Tail(a))
         ELSE WellFormedOf(Tail(a))

\* C14 as claimed: for any customizations array, the entries whose rule or
\* severity is missing or not a string, an entry that is null or not an object
\* included, are dropped one by one, the well-formed entries are returned in
\* their order, and nothing is thrown (the batch does not fail).
C14_MalformedDropped ==
    resolved.done =>
        /\ ~resolved.output.thrown
        /\ resolved.output.value = WellFormedOf(SelectedCustomizations(resolved.input).items)

\* C15: the user answered 'Yes' and migration.update() fails: the failure is
\* reported once, the update is not tried again in that workflow, the Migration
\* in flight is discarded, the semaphore is released, the settings of the
\* resource stay as they were, and the item gets its settings.
C15_UpdateFailure ==
    [][\A r \in Requests :
          (requests[r].pc = "update" /\ lastEvent'.type = "updateFailed"
             /\ requests'[r] # requests[r])
          => /\ requests'[r].reported = requests[r].reported + 1
             /\ requests'[r].pc \in {"waiting", "done"}
             /\ migration' = NoUri
             /\ active' = active - 1
             /\ legacy' = legacy
             /\ Len(requests'[r].result) = Len(requests[r].result) + 1
             /\ ~requests'[r].result[requests[r].idx].null]_vars

\* a call returned its settings after its update failed: one report, the
\* resource still needs the update, the semaphore is free
C15_Witness ==
    /\ lastEvent.type = "updateFailed"
    /\ needsUpdate(lastEvent.uri)
    /\ migration = NoUri
    /\ active = 0
    /\ \E r \in Requests :
          /\ requests[r].pc = "done"
          /\ requests[r].reported = 1
          /\ Len(requests[r].result) = Len(requests[r].items)
          /\ Len(requests[r].items) >= 1

\* the runs of the command that are inside record -> needsUpdate -> update
CommandsMigrating == { c \in Commands : commands[c].pc = "update" }

\* C16 as claimed: at most one migration workflow (record, needsUpdate, update)
\* is in progress at any time, whether it was started by readConfiguration or
\* by the command eslint.migrateSettings.
C16_OneWorkflow ==
    Cardinality(InCriticalSection) + Cardinality(CommandsMigrating) <= 1

\* C17 as claimed: a prompt that returns no selection is treated like 'Not
\* now': notNow is set, so that no later request shows a prompt.
C17_Original ==
    [][lastEvent'.type = "undefined" => notNow']_vars

\* C17 as amended: a prompt that returns no selection changes nothing: notNow
\* stays unset, the settings and the global setting stay as they are, the
\* Migration in flight is discarded and the semaphore released; and the next
\* thunk that runs for a resource that needs the update shows the prompt again.
C17_DismissKeepsPrompting ==
    [][ /\ lastEvent'.type = "undefined" =>
              /\ ~notNow /\ ~notNow'
              /\ legacy' = legacy
              /\ globalMigration' = globalMigration
              /\ migration' = NoUri
              /\ active' = active - 1
        /\ (lastEvent.type = "undefined" /\ lastEvent'.type = "runThunk"
              /\ globalMigration = "on" /\ needsUpdate(lastEvent'.uri))
           => /\ Prompting' # {}
              /\ migration' = lastEvent'.uri ]_vars

\* the prompt was dismissed while another request waits for a resource that
\* needs the update: its thunk runs next
C17_Witness ==
    /\ lastEvent.type = "undefined"
    /\ ~notNow
    /\ globalMigration = "on"
    /\ Prompting = {}
    /\ waiting # <<>>
    /\ needsUpdate(requests[Head(waiting)].items[requests[Head(waiting)].idx].scopeUri)

\* format and codeActionOnSave are at their defaults
KeepsDefaults(settings) ==
    /\ settings.format = FALSE
    /\ settings.codeActionOnSave = [mode |-> "all", rules |-> "undefined"]

\* C19 as claimed: in settings with validate = off the format flag and the
\* code-action-on-save mode keep their defaults, there is no rule allow-list,
\* and no working directory is resolved.
C19_Original ==
    (resolved.done /\ resolved.output.validate = "off") =>
        /\ KeepsDefaults(resolved.output)
        /\ resolved.output.workingDirectory = Undefined

\* C19 as amended: in settings with validate = off the format flag and the
\* code-action-on-save mode keep their defaults and there is no rule
\* allow-list; the working directory is resolved from eslint.workingDirectories
\* for every synced document, whatever validate is, and is unset only for a
\* document that is not synced.
C19_OffKeepsDefaults ==
    resolved.done =>
        /\ resolved.output.validate = "off" => KeepsDefaults(resolved.output)
        /\ resolved.output.workingDirectory =
              IF resolved.input.synced
              THEN ResolveWorkingDirectory(resolved.input.workingDirectories)
              ELSE Undefined

\* a synced document whose settings say validate = off: format.enable and the
\* allow-list are configured and left out, a working directory is resolved
C19_Witness ==
    /\ resolved.done
    /\ resolved.input.synced
    /\ resolved.input.formatEnable
    /\ resolved.input.rules # "null"
    /\ resolved.input.mode = "problems"
    /\ resolved.output.validate = "off"
    /\ KeepsDefaults(resolved.output)
    /\ resolved.output.workingDirectory.kind = "directory"

\* the events that clear probeFailed as the claim has them: configuration
\* changes only
C20_ClaimedClearEvents == ConfigurationChangeEvents

\* C20 as claimed: probeFailed is changed by two events only: the ProbeFailed
\* request adds its URI and a configuration change clears the set; every other
\* event, the watched-file change included, leaves it as it is.
C20_Original ==
    [][ /\ lastEvent'.type = "probeFailed" => probeFailed' = probeFailed \cup {lastEvent'.uri}
        /\ lastEvent'.type \in C20_ClaimedClearEvents => probeFailed' = {}
        /\ lastEvent'.type \notin C20_ClaimedClearEvents \cup {"probeFailed"}
              => probeFailed' = probeFailed ]_vars

\* C20 as amended: probeFailed is changed by three events: the ProbeFailed
\* request adds its URI, and a configuration change and a watched-file change
\* that is passed on to the server each clear the set; every other event
\* leaves it as it is.
C20_ProbeFailedFrame ==
    [][ /\ lastEvent'.type = "probeFailed" => probeFailed' = probeFailed \cup {lastEvent'.uri}
        /\ lastEvent'.type \in C20_ClaimedClearEvents \cup {"didChangeWatchedFile"}
              => probeFailed' = {}
        /\ lastEvent'.type \notin C20_ClaimedClearEvents \cup {"didChangeWatchedFile", "probeFailed"}
              => probeFailed' = probeFailed ]_vars

\* a watched-file change has just emptied a set that was not empty, and a
\* document evicted by its probe failure is open, unsynced and probed again
C20_Witness ==
    /\ lastEvent.type = "didChangeWatchedFile"
    /\ probeFailed = {}
    /\ \E u \in Opened \ Synced :
          SelectorMatches(u) /\ ~AlwaysSync(u) /\ Classify(u) = "probe"

\* the events with which a request leaves the critical section
ExitEvents ==
    {"no", "readme", "undefined", "updated", "updateFailed", "globalUpdated",
     "globalUpdateFailed"}

\* C21: the semaphore is released on every exit path of the guarded workflow:
\* a thunk that shows no prompt leaves the slot free, every step with which a
\* request leaves the critical section gives the slot back, and whenever no
\* request is inside the critical section the slot is free, so that a waiting
\* caller can acquire it.
C21_ReleasedOnEveryExit ==
    /\ [](InCriticalSection = {} =>
             active = 0 /\ (waiting # <<>> => CanRun(waiting, active)))
    /\ [][ /\ \A r \in Requests :
                (r \in InCriticalSection /\ r \notin InCriticalSection') =>
                    /\ active' = active - 1
                    /\ lastEvent'.type \in ExitEvents
           /\ (lastEvent'.type = "runThunk" /\ InCriticalSection' = InCriticalSection)
                  => active' = active ]_vars

\* the write of the global setting failed, the request was rejected, and the
\* slot is free for a caller that waits
C21_Witness ==
    /\ lastEvent.type = "globalUpdateFailed"
    /\ \E r \in Requests : requests[r].pc = "failed"
    /\ active = 0
    /\ waiting # <<>>

\* C22: the in-flight migration record exists only while a request is inside
\* the critical section, and it is the record of that request's resource:
\* whenever the semaphore is free the record is undefined.
C22_RecordOnlyInCriticalSection ==
    /\ active = 0 => migration = NoUri
    /\ migration # NoUri =>
          \E r \in InCriticalSection : requests[r].items[requests[r].idx].scopeUri = migration

\* the write of the global setting threw out of the try block: the record of
\* the resource, which still needs the update, is gone
C22_Witness ==
    /\ lastEvent.type = "globalUpdateFailed"
    /\ legacy[lastEvent.uri]
    /\ migration = NoUri

\* C23: a thunk shows the migration prompt exactly when notNow is unset, the
\* global setting is 'on' and the resource needs the update, and the record
\* is then the one of that resource; when notNow is set or the global setting
\* is not 'on' the thunk leaves no record and shows no prompt; a thunk never
\* changes notNow, and no prompt appears in any other step.
C23_PromptGuard ==
    [][ /\ (lastEvent'.type = "runThunk" /\ waiting # <<>>) =>
              LET r == Head(waiting)
                  u == requests[r].items[requests[r].idx].scopeUri
                  guard == notNow = FALSE /\ globalMigration = "on"
              IN  /\ requests'[r].pc = "prompt" <=> (guard /\ legacy[u])
                  /\ requests'[r].pc = "prompt" => migration' = u
                  /\ ~guard => (migration' = NoUri /\ migration = NoUri)
                  /\ ~(guard /\ legacy[u]) => migration' = NoUri
                  /\ notNow' = notNow
        /\ \A q \in Requests :
              (requests[q].pc # "prompt" /\ requests'[q].pc = "prompt") =>
                  (lastEvent'.type = "runThunk" /\ waiting # <<>> /\ Head(waiting) = q) ]_vars

\* 'Never migrate Settings' was chosen and written; the thunk of a later
\* request for a resource that still needs the update ran without a prompt
C23_Witness ==
    /\ lastEvent.type = "runThunk"
    /\ globalMigration = "off"
    /\ notNow = FALSE
    /\ legacy[lastEvent.uri]
    /\ Prompting = {}
    /\ migration = NoUri

\* the number of settings objects built so far for request r
Built(r) == Cardinality({ i \in DOMAIN requests[r].result : ~requests[r].result[i].null })

\* the resource of the item request r is at
ScopeOf(r) == requests[r].items[requests[r].idx].scopeUri

\* C24: the settings of an item with a scope are built only by the request
\* that holds the critical section or has just been given it, also for a
\* resource that needs no migration; one step builds the settings of one item
\* of one request, in the order of the batch; so while a prompt is pending
\* no settings are built for any other item, of the same batch or another.
C24_BuiltUnderLock ==
    /\ [](\A r \in Requests :
             requests[r].pc \in {"waiting", "prompt", "update", "globalUpdate"} =>
                 Len(requests[r].result) = requests[r].idx - 1)
    /\ [][ \A r \in Requests :
              Built(r)' > Built(r) =>
                  /\ Built(r)' = Built(r) + 1
                  /\ \A q \in Requests \ {r} : requests'[q].result = requests[q].result
                  /\ \/ r \in InCriticalSection /\ lastEvent'.type \in ExitEvents
                     \/ /\ InCriticalSection = {}
                        /\ waiting # <<>> /\ Head(waiting) = r
                        /\ lastEvent'.type = "runThunk"
                  /\ ~(InCriticalSection # {} /\ InCriticalSection' = InCriticalSection) ]_vars

\* a prompt is pending for the first item of a batch of two, whose second item
\* has no settings yet, while a concurrent request for a resource that needs
\* no migration waits for the semaphore with no settings built
C24_Witness ==
    \E p \in Requests, q \in Requests :
        /\ requests[p].pc = "prompt"
        /\ Len(requests[p].items) = 2 /\ requests[p].idx = 1 /\ requests[p].result = <<>>
        /\ requests[q].pc = "waiting"
        /\ ~legacy[ScopeOf(q)]
        /\ requests[q].result = <<>>

\* the requests whose readConfiguration call is in progress
Pending == { r \in Requests : requests[r].pc \in {"waiting", "prompt", "update", "globalUpdate"} }

\* C25 as stated: every readConfiguration call in progress eventually returns
\* its list of results.
C25_Original ==
    \A r \in Requests : (r \in Pending) ~> (requests[r].pc = "done")

\* C25: when thunks are scheduled, prompts are answered or dismissed and
\* writes of the settings settle, every readConfiguration call in progress
\* eventually settles: it returns its list of results, or it is rejected
\* because the write of the global setting failed; no call waits forever.
C25_EventuallySettles ==
    \A r \in Requests : (r \in Pending) ~> (requests[r].pc \in {"done", "failed"})

\* one call was rejected by the failed write of the global setting, and the
\* concurrent call for a batch of two items has returned both settings
C25_Witness ==
    \E r \in Requests, q \in Requests :
        /\ requests[q].pc = "failed"
        /\ requests[r].pc = "done"
        /\ Len(requests[r].items) = 2
        /\ Built(r) = 2

\* C26: a change, a save or a code-action request of a document is passed on
\* only if the document is in syncedDocuments when the event arrives, and then
\* for that document alone; for a document that is not, nothing is passed on,
\* willSaveWaitUntil and provideCodeActions answer with the empty list, and
\* syncedDocuments is as it was.
C26_TrafficGated ==
    [][ /\ \A i \in 1..Len(sent') :
              sent'[i].method \in TrafficMethods =>
                  /\ sent'[i].uri \in Synced
                  /\ sent' = <<Notification(lastEvent'.type, lastEvent'.uri)>>
        /\ (lastEvent'.type \in TrafficMethods /\ lastEvent'.uri \notin Synced) =>
              /\ sent' = <<>>
              /\ lastEvent'.type \in {"willSaveWaitUntil", "codeAction"} => resolved'.output = "[]"
              /\ lastEvent'.type \in {"didChange", "willSave", "didSave"}
                    => resolved'.output = "undefined"
        /\ lastEvent'.type \in TrafficMethods => Synced' = Synced ]_vars

\* a.js is open in the editor but not synced (validation is off for it): its
\* save was not passed on
C26_Witness ==
    /\ lastEvent.type = "didSave"
    /\ lastEvent.uri \in Opened \ Synced
    /\ sent = <<>>

\* how many times the notification of `method` for u is in ns
Count(ns, method, u) == Cardinality({ i \in 1..Len(ns) : ns[i] = Notification(method, u) })

\* C27: for a text document the open and close notifications forwarded
\* alternate, starting with an open: at the start no document is synced; a
\* step forwards at most one of the two for a URI; an open is forwarded
\* exactly when the URI enters syncedDocuments and a close exactly when it
\* leaves it, so no close is forwarded for a URI that is not synced and no
\* second open for one that is.
C27_Alternation ==
    /\ [](lastEvent.type = "start" => Synced = {})
    /\ [][ \A u \in TextUris :
              /\ Count(sent', "didOpen", u) + Count(sent', "didClose", u) <= 1
              /\ Count(sent', "didOpen", u) = 1
                    <=> (u \notin Synced /\ u \in Synced')
              /\ Count(sent', "didClose", u) = 1
                    <=> (u \in Synced /\ u \notin Synced') ]_vars

\* the editor closes a document that is not synced, its probe having failed:
\* no close is forwarded
C27_Witness ==
    /\ lastEvent.type = "didClose"
    /\ lastEvent.uri \in probeFailed
    /\ lastEvent.uri \notin Opened
    /\ sent = <<>>

====
